---------------------------- MODULE Spec2Model ----------------------------
(***************************************************************************)
(* A model of the two controllers of community.ioscm:                      *)
(*   Command (plugins/module_utils/network/ioscm/config/command/command.py)*)
(*     the check-mode command filter and the conditional retry loop;       *)
(*   Config  (plugins/module_utils/network/ioscm/config/config/config.py)  *)
(*     the reconcile controller: fetch, diff, apply, save, diff-against.   *)
(* The device, the diff computation and the Conditional parser are         *)
(* collaborators outside the repository; they are modelled by their        *)
(* contracts, with every answer they can give chosen nondeterministically. *)
(***************************************************************************)
EXTENDS Integers, Sequences, FiniteSets, TLC

VARIABLES
    pc,            \* position of the running module in its handler
    check_mode,    \* module.check_mode
    params,        \* module.params
    warnings,      \* the warnings list of the invocation
    result,        \* the result dict returned to exit_json
    failure,       \* the keyword arguments of fail_json, or NoFailure
    \* ---- Command (ioscm_command) ----
    commands,      \* Command: the command list after parse_commands
    conditionals,  \* Command.run_commands: the pending Conditional objects
    retries,       \* Command.run_commands: the local retries counter
    responses,     \* Command.run_commands: the responses of the last send
    sent,          \* device side: the command list of the last send
    sends,         \* history: number of run_commands round trips made
    sleeps,        \* history: number of time.sleep calls made
    everTrue,      \* history: indices of wait_for that held on some send
    evaluated,     \* history: the item(responses) calls of the latest iteration
    answered,      \* device side: the outputs given to the last send
    \* ---- Config (ioscm_config) ----
    diff_mode,     \* module._diff
    module_warn,   \* the messages handed to module.warn
    devRunning,    \* device: the running config
    devStartup,    \* device: the startup config
    calls,         \* device side: the calls received, in order
    contents,      \* Config.generate_command: local contents
    config,        \* Config.generate_command: local config
    running_config,  \* Config.generate_command: local running_config
    startup_config,  \* Config.generate_command: local startup_config
    response         \* Config.generate_command: the answer of connection.get_diff

CommandVars == <<commands, conditionals, retries, responses, sent, sends,
                 sleeps, everTrue, evaluated, answered>>

ConfigVars == <<diff_mode, module_warn, devRunning, devStartup, calls,
                contents, config, running_config, startup_config, response>>

vars == <<pc, check_mode, params, warnings, result, failure, CommandVars,
          ConfigVars>>

(***************************************************************************)
(* Bounds of the model.                                                    *)
(***************************************************************************)
MaxCommands == 2
MaxWaitFor == 2
MaxRetries == 2

\* Python's None for a list-valued parameter: a value no list of the model equals.
None == <<"None">>

NoFailure == [msg |-> "", failed_conditions |-> <<>>]
NoResult == [changed |-> FALSE]

\* All sequences over S of length at most n.
SeqUpTo(S, n) == UNION {[1..k -> S] : k \in 0..n}

(***************************************************************************)
(* Text.  A command text is the sequence of its characters, so that        *)
(* str.startswith is computed and not assumed.                             *)
(***************************************************************************)
show == <<"s", "h", "o", "w">>

CommandTexts ==
    { <<"s", "h", "o", "w", " ", "v">>,     \* "show v"
      <<"S", "h", "o", "w">>,               \* "Show"  (wrong case)
      <<"s", "h", " ", "v">>,               \* "sh v"  (abbreviation)
      <<"c", "o", "n", "f">> }              \* "conf"

\* One entry of transform_commands' output: a dict with the command text.
CommandItems == [command : CommandTexts]

\* A mutant of startswith: compares without regard to case of the first letter.
startswith_nocase(text, prefix) ==
    /\ Len(text) >= Len(prefix)
    /\ \A i \in 1..Len(prefix) :
          \/ text[i] = prefix[i]
          \/ (i = 1 /\ text[i] = "S" /\ prefix[i] = "s")

\* str.startswith(prefix)
startswith(text, prefix) ==
    /\ Len(text) >= Len(prefix)
    /\ SubSeq(text, 1, Len(prefix)) = prefix

\* list.remove(x): drops the first element equal to x.
RECURSIVE list_remove(_, _)
list_remove(list, x) ==
    IF list = <<>> THEN <<>>
    ELSE IF Head(list) = x THEN Tail(list)
    ELSE <<Head(list)>> \o list_remove(Tail(list), x)

(***************************************************************************)
(* Command.parse_commands.  The for loop walks a copy of the list          *)
(* (list(commands)) and removes from the live list.                        *)
(***************************************************************************)
RECURSIVE parse_loop(_, _, _, _)
parse_loop(copy, i, live, warns) ==
    IF i > Len(copy) THEN [commands |-> live, warnings |-> warns]
    ELSE IF ~startswith(copy[i].command, show)
         THEN parse_loop(copy, i + 1, list_remove(live, copy[i]),
                         Append(warns, copy[i].command))
         ELSE parse_loop(copy, i + 1, live, warns)

\* A mutant of the loop: it walks the live list while removing from it.
RECURSIVE parse_loop_live(_, _, _)
parse_loop_live(i, live, warns) ==
    IF i > Len(live) THEN [commands |-> live, warnings |-> warns]
    ELSE IF ~startswith(live[i].command, show)
         THEN parse_loop_live(i + 1, list_remove(live, live[i]),
                              Append(warns, live[i].command))
         ELSE parse_loop_live(i + 1, live, warns)

parse_commands_live(cmds, check, warns) ==
    IF check THEN parse_loop_live(1, cmds, warns)
    ELSE [commands |-> cmds, warnings |-> warns]

\* A mutant of parse_commands: the filter is applied whatever the mode.
parse_commands_always(cmds, check, warns) == parse_loop(cmds, 1, cmds, warns)

parse_commands(cmds, check, warns) ==
    IF check THEN parse_loop(cmds, 1, cmds, warns)
    ELSE [commands |-> cmds, warnings |-> warns]


(***************************************************************************)
(* Conditionals.  Conditional(raw) is parsed outside the repository; it is *)
(* modelled by its contract: an object with the raw text and a predicate   *)
(* over the responses of one send.  The output of a command is modelled as *)
(* the set of keywords it contains.                                        *)
(***************************************************************************)
Keywords == {"IOS", "XE"}

\* A wait_for entry Conditional() cannot build.
Malformed == "result[0] resembles IOS"

Raws == {"result[0] contains IOS", "result[0] contains XE", Malformed}

\* A mutant of build_fails: an entry is not looked at until it is evaluated.
build_never_fails(wait_for) == FALSE

\* [Conditional(c) for c in wait_for] raises.
build_fails(wait_for) == \E i \in 1..Len(wait_for) : wait_for[i] = Malformed

ConditionalKey(raw) ==
    IF raw = "result[0] contains IOS" THEN "IOS" ELSE "XE"

\* Conditional(c) for the i-th entry of wait_for: objects are told apart by identity.
Conditional(i, raw) == [id |-> i, raw |-> raw]

\* item(responses)
Holds(item, resp) ==
    /\ resp # <<>>
    /\ ConditionalKey(item.raw) \in resp[1]

\* The value of the local `responses` before the first assignment to it.
Unbound == << {"<unbound>"} >>

\* wait_for = module.params["wait_for"] or []
OrEmpty(v) == IF v = None THEN <<>> ELSE v

(***************************************************************************)
(* The for loop of Command.run_commands (lines 108-113): it walks a copy   *)
(* of the pending list and removes from the live one.                      *)
(***************************************************************************)
RECURSIVE eval_loop(_, _, _, _, _)
eval_loop(copy, i, live, resp, match) ==
    IF i > Len(copy) THEN live
    ELSE IF Holds(copy[i], resp)
         THEN IF match = "any" THEN <<>>
              ELSE eval_loop(copy, i + 1, list_remove(live, copy[i]), resp, match)
         ELSE eval_loop(copy, i + 1, live, resp, match)

\* A mutant of eval_calls: the walk goes on after a hit under "any".
RECURSIVE eval_calls_no_break(_, _, _, _)
eval_calls_no_break(copy, i, resp, match) ==
    IF i > Len(copy) THEN <<>>
    ELSE <<[item |-> copy[i], responses |-> resp]>>
         \o eval_calls_no_break(copy, i + 1, resp, match)

\* The item(responses) calls the for loop makes, in order: the walk stops at
\* the break.
RECURSIVE eval_calls(_, _, _, _)
eval_calls(copy, i, resp, match) ==
    IF i > Len(copy) THEN <<>>
    ELSE <<[item |-> copy[i], responses |-> resp]>>
         \o (IF Holds(copy[i], resp) /\ match = "any" THEN <<>>
             ELSE eval_calls(copy, i + 1, resp, match))

\* A mutant: under "any" the satisfied predicate alone is removed.
evaluate_never_clears(conds, resp, match) ==
    eval_loop(conds, 1, conds, resp, "all")

\* A mutant: the first satisfied predicate clears the list whatever the mode.
evaluate_always_clears(conds, resp, match) ==
    eval_loop(conds, 1, conds, resp, "any")

\* A mutant: the predicates are never evaluated, the list is returned as it is.
evaluate_nothing(conds, resp, match) == conds

evaluate(conds, resp, match) == eval_loop(conds, 1, conds, resp, match)

\* A mutant of the loop test: one round fewer.
while_test_strict(r) == r > 0

\* while retries >= 0
while_test(r) == r >= 0

\* A mutant of the loop exit: the loop goes on while the budget lasts.
loop_break_never(conds) == FALSE

\* if not conditionals: break
loop_break(conds) == conds = <<>>

(***************************************************************************)
(* Python values of more than one type (None, str, list, NetworkConfig)    *)
(* carry their type, as the code tells them apart by truth value.          *)
(***************************************************************************)
PyNone == [kind |-> "None"]

Str(text) == [kind |-> "str", text |-> text]

List(items) == [kind |-> "list", items |-> items]

\* The values of the Config variables while ioscm_command runs.
ConfigIdle ==
    /\ diff_mode = FALSE
    /\ module_warn = <<>>
    /\ devRunning = <<>>
    /\ devStartup = <<>>
    /\ calls = <<>>
    /\ contents = PyNone
    /\ config = PyNone
    /\ running_config = PyNone
    /\ startup_config = PyNone
    /\ response = PyNone

(***************************************************************************)
(* ioscm_command: Command.generate_command and Command.run_commands.       *)
(***************************************************************************)
CommandRequests ==
    [ commands : SeqUpTo(CommandItems, MaxCommands),
      wait_for : SeqUpTo(Raws, MaxWaitFor) \cup {None},
      match    : {"all", "any"},
      retries  : (-1)..MaxRetries ]

InitCommand ==
    /\ pc = "parse"
    /\ check_mode \in BOOLEAN
    /\ params \in CommandRequests
    /\ warnings = <<>>
    /\ result = NoResult
    /\ failure = NoFailure
    /\ commands = <<>>
    /\ conditionals = <<>>
    /\ retries = 0
    /\ responses = Unbound
    /\ sent = <<>>
    /\ sends = 0
    /\ sleeps = 0
    /\ everTrue = {}
    /\ evaluated = <<>>
    /\ answered = <<>>
    /\ ConfigIdle

\* generate_command, lines 75-83, and run_commands, line 105.
ParseCommands ==
    /\ pc = "parse"
    /\ UNCHANGED ConfigVars
    /\ LET parsed == parse_commands(params.commands, check_mode, <<>>)
           wait_for == OrEmpty(params.wait_for)
       IN /\ commands' = parsed.commands
          /\ warnings' = parsed.warnings
          /\ IF build_fails(wait_for)
             THEN \* AttributeError goes to fail_json, another exception goes up
                  /\ \/ /\ failure' = [msg |-> "AttributeError"]
                        /\ pc' = "invalid"
                     \/ /\ pc' = "raised"
                        /\ UNCHANGED failure
                  /\ UNCHANGED <<conditionals, retries>>
             ELSE /\ conditionals' =
                        [i \in 1..Len(wait_for) |-> Conditional(i, wait_for[i])]
                  /\ retries' = params.retries
                  /\ pc' = "while"
                  /\ UNCHANGED failure
    /\ UNCHANGED <<check_mode, params, result, responses, sent,
                   sends, sleeps, everTrue, evaluated,
                   answered>>

\* run_commands, line 106: the loop test.
While ==
    /\ pc = "while"
    /\ UNCHANGED ConfigVars
    /\ pc' = IF while_test(retries) THEN "send" ELSE "return"
    /\ UNCHANGED <<check_mode, params, warnings, result, failure, commands,
                   conditionals, retries, responses, sent, sends, sleeps, everTrue,
                   evaluated, answered>>

\* A mutant of Send: the responses of the first round are kept.
Send_keeps_first ==
    /\ pc = "send"
    /\ UNCHANGED ConfigVars
    /\ \/ \E out \in SUBSET Keywords :
             /\ answered' = [i \in 1..Len(commands) |-> IF i = 1 THEN out ELSE {}]
             /\ responses' = IF responses = Unbound THEN answered' ELSE responses
             /\ everTrue' = everTrue \cup
                   {i \in 1..Len(OrEmpty(params.wait_for)) :
                       Holds(Conditional(i, OrEmpty(params.wait_for)[i]), responses')}
             /\ pc' = "evaluate"
       \/ /\ pc' = "raised"
          /\ UNCHANGED <<responses, everTrue, answered>>
    /\ sent' = commands
    /\ sends' = sends + 1
    /\ UNCHANGED <<check_mode, params, warnings, result, failure, commands,
                   conditionals, retries, sleeps, evaluated>>

\* A mutant of Send: the interval is slept also when the call raises.
Send_error_sleeps ==
    /\ pc = "send"
    /\ UNCHANGED ConfigVars
    /\ \/ \E out \in SUBSET Keywords :
             /\ responses' = [i \in 1..Len(commands) |-> IF i = 1 THEN out ELSE {}]
             /\ everTrue' = everTrue \cup
                   {i \in 1..Len(OrEmpty(params.wait_for)) :
                       Holds(Conditional(i, OrEmpty(params.wait_for)[i]), responses')}
             /\ answered' = responses'
             /\ pc' = "evaluate"
             /\ UNCHANGED sleeps
       \/ /\ pc' = "raised"
          /\ sleeps' = sleeps + 1
          /\ UNCHANGED <<responses, everTrue, answered>>
    /\ sent' = commands
    /\ sends' = sends + 1
    /\ UNCHANGED <<check_mode, params, warnings, result, failure, commands,
                   conditionals, retries, evaluated>>

\* run_commands, line 107: one round trip; the device answers as it likes,
\* or the call raises (ConnectionError) and nothing catches it.
Send ==
    /\ pc = "send"
    /\ UNCHANGED ConfigVars
    /\ \/ \E out \in SUBSET Keywords :
             /\ responses' = [i \in 1..Len(commands) |-> IF i = 1 THEN out ELSE {}]
             /\ everTrue' = everTrue \cup
                   {i \in 1..Len(OrEmpty(params.wait_for)) :
                       Holds(Conditional(i, OrEmpty(params.wait_for)[i]), responses')}
             /\ answered' = responses'
             /\ pc' = "evaluate"
       \/ /\ pc' = "raised"
          /\ UNCHANGED <<responses, everTrue, answered>>
    /\ sent' = commands
    /\ sends' = sends + 1
    /\ UNCHANGED <<check_mode, params, warnings, result, failure, commands,
                   conditionals, retries, sleeps, evaluated>>

\* run_commands, lines 108-115: the predicates are evaluated, the loop may end.
Evaluate ==
    /\ pc = "evaluate"
    /\ UNCHANGED ConfigVars
    /\ conditionals' = evaluate(conditionals, responses, params.match)
    /\ evaluated' = eval_calls(conditionals, 1, responses, params.match)
    /\ pc' = IF loop_break(conditionals') THEN "return" ELSE "sleep"
    /\ UNCHANGED <<check_mode, params, warnings, result, failure, commands,
                   retries, responses, sent, sends, sleeps, everTrue, answered>>

\* A mutant of Sleep: the commands are parsed again before the next round.
Sleep_reparses ==
    /\ pc = "sleep"
    /\ UNCHANGED ConfigVars
    /\ sleeps' = sleeps + 1
    /\ retries' = retries - 1
    /\ LET parsed == parse_commands(params.commands, check_mode, warnings)
       IN /\ commands' = parsed.commands
          /\ warnings' = parsed.warnings
    /\ pc' = "while"
    /\ UNCHANGED <<check_mode, params, result, failure,
                   conditionals, responses, sent, sends, everTrue, evaluated,
                   answered>>

\* A mutant of Sleep: the next round starts over with every supplied predicate.
Sleep_restores ==
    /\ pc = "sleep"
    /\ UNCHANGED ConfigVars
    /\ sleeps' = sleeps + 1
    /\ retries' = retries - 1
    /\ conditionals' = [i \in 1..Len(OrEmpty(params.wait_for)) |->
                           Conditional(i, OrEmpty(params.wait_for)[i])]
    /\ pc' = "while"
    /\ UNCHANGED <<check_mode, params, warnings, result, failure, commands,
                   responses, sent, sends, everTrue, evaluated, answered>>

\* run_commands, lines 116-117.
Sleep ==
    /\ pc = "sleep"
    /\ UNCHANGED ConfigVars
    /\ sleeps' = sleeps + 1
    /\ retries' = retries - 1
    /\ pc' = "while"
    /\ UNCHANGED <<check_mode, params, warnings, result, failure, commands,
                   conditionals, responses, sent, sends, everTrue, evaluated,
                   answered>>

\* A mutant: only the first pending predicate is reported.
fail_unsatisfied_first(conds) ==
    [ msg |-> "One or more conditional statements have not been satisfied",
      failed_conditions |-> <<conds[1].raw>> ]

\* fail_json(msg=..., failed_conditions=...), lines 88-90.
fail_unsatisfied(conds) ==
    [ msg |-> "One or more conditional statements have not been satisfied",
      failed_conditions |-> [i \in 1..Len(conds) |-> conds[i].raw] ]

\* run_commands, line 118, and generate_command, lines 85-93.
Return ==
    /\ pc = "return"
    /\ UNCHANGED ConfigVars
    /\ IF responses = Unbound
       THEN \* UnboundLocalError: no round was made, the module dies
            /\ pc' = "crashed"
            /\ UNCHANGED <<result, failure>>
       ELSE IF conditionals # <<>>
       THEN /\ failure' = fail_unsatisfied(conditionals)
            /\ pc' = "failed"
            /\ UNCHANGED result
       ELSE /\ result' = [changed |-> FALSE, warnings |-> warnings,
                          stdout |-> responses]
            /\ pc' = "done"
            /\ UNCHANGED failure
    /\ UNCHANGED <<check_mode, params, warnings, commands, conditionals,
                   retries, responses, sent, sends, sleeps, everTrue, evaluated,
                   answered>>

NextCommand == ParseCommands \/ While \/ Send \/ Evaluate \/ Sleep \/ Return

SpecCommand == InitCommand /\ [][NextCommand]_vars


\* The sequential program always takes its next step; every device call returns.
FairSpecCommand == SpecCommand /\ WF_vars(NextCommand)

(***************************************************************************)
(* Properties of the retry executor and of the check-mode filter.          *)
(***************************************************************************)
WaitFor == OrEmpty(params.wait_for)

\* The Conditional objects as supplied, in order.
Supplied == [i \in 1..Len(WaitFor) |-> Conditional(i, WaitFor[i])]

\* The supplied predicates that held on none of the sends made so far, in order.
NeverTrue == SelectSeq(Supplied, LAMBDA c : c.id \notin everTrue)

\* The loop of run_commands has ended (normally).
LoopEnded == pc \in {"return", "done", "failed"}

Terminated == pc \in {"done", "failed", "crashed", "invalid", "raised"}

\* C1: with match = all and retries >= 0 the loop ends with an empty pending
\* list exactly when every supplied predicate held on at least one of the
\* (at most retries+1) sends; otherwise it ends after retries+1 sends and the
\* pending list is exactly the predicates that held on none of them, in
\* supplied order.
C1_AllSatisfiedIffEachHeldOnce ==
    (params.match = "all" /\ params.retries >= 0 /\ LoopEnded) =>
        /\ sends <= params.retries + 1
        /\ (conditionals = <<>>) <=> (everTrue = 1..Len(WaitFor))
        /\ conditionals = NeverTrue
        /\ conditionals # <<>> => sends = params.retries + 1
        /\ pc = "done" => conditionals = <<>>
        /\ pc = "failed" => conditionals # <<>>

C1_Witness ==
    /\ params.match = "all"
    /\ pc = "failed"
    /\ Len(WaitFor) = 2
    /\ everTrue = {1}
    /\ Len(conditionals) = 1
    /\ sends = 3

\* C2: with match = any and at least one predicate, a send is made only while
\* no predicate has held on any earlier send; the loop ends with the pending
\* list cleared exactly when some predicate held on the last send, and
\* otherwise after retries+1 sends with every predicate pending; it never
\* makes more than retries+1 sends.
C2_AnyStopsAtFirstHit ==
    (params.match = "any" /\ Len(WaitFor) >= 1 /\ params.retries >= 0) =>
        /\ sends <= params.retries + 1
        /\ pc \in {"while", "send", "sleep"} => everTrue = {}
        /\ LoopEnded =>
              /\ (conditionals = <<>>) <=> (everTrue # {})
              /\ conditionals = <<>> =>
                    \E i \in 1..Len(Supplied) : Holds(Supplied[i], responses)
              /\ conditionals # <<>> =>
                    /\ conditionals = Supplied
                    /\ sends = params.retries + 1
              /\ pc = "done" => conditionals = <<>>

C2_Witness ==
    /\ params.match = "any"
    /\ pc = "done"
    /\ Len(WaitFor) = 2
    /\ everTrue = {2}
    /\ sends = 2

\* C3: for every retries >= 0 the loop terminates, having made at least one
\* and at most retries+1 sends, and exactly one send when retries = 0.
C3_SendsBounded ==
    params.retries >= 0 =>
        /\ sends <= params.retries + 1
        /\ LoopEnded => sends >= 1
        /\ pc # "crashed"

C3_Terminates == []C3_SendsBounded /\ <>Terminated

C3_Witness ==
    /\ params.retries = 0
    /\ pc = "failed"
    /\ sends = 1

\* C4: with no predicates (wait_for absent or empty) and retries >= 0, under
\* both match modes, exactly one send is made, time.sleep is never called,
\* the module does not fail and the result has changed = false.
C4_NoPredicatesOneSend ==
    (WaitFor = <<>> /\ params.retries >= 0) =>
        /\ sleeps = 0
        /\ sends <= 1
        /\ pc \notin {"sleep", "failed", "crashed"}
        /\ failure = NoFailure
        /\ LoopEnded => sends = 1
        /\ pc = "done" => result.changed = FALSE

C4_Witness ==
    /\ params.wait_for = None
    /\ params.match = "any"
    /\ params.retries = 2
    /\ pc = "done"
    /\ sends = 1

\* C5: the module fails with the 'conditions unsatisfied' error exactly when
\* the loop ended with a non-empty pending list, which is only after
\* retries+1 sends; failed_conditions is the raw text of every predicate
\* still pending, one entry each, in supplied order.
C5_FailsIffPending ==
    params.retries >= 0 =>
        /\ (failure # NoFailure /\ pc # "invalid") <=> (pc = "failed")
        /\ pc \in {"done", "failed"} => ((pc = "failed") <=> (conditionals # <<>>))
        /\ pc = "failed" =>
              /\ sends = params.retries + 1
              /\ failure.msg =
                    "One or more conditional statements have not been satisfied"
              /\ LET pending == IF params.match = "all" THEN NeverTrue ELSE Supplied
                 IN /\ pending # <<>>
                    /\ failure.failed_conditions =
                          [i \in 1..Len(pending) |-> WaitFor[pending[i].id]]

C5_Witness ==
    /\ pc = "failed"
    /\ params.match = "all"
    /\ Len(failure.failed_conditions) = 2
    /\ failure.failed_conditions[1] # failure.failed_conditions[2]

\* C6: when the loop ends exhausted with pending predicates, the failure
\* reported to the caller carries the responses of the last send together
\* with the failed conditions.
C6_FailureCarriesResponses ==
    pc = "failed" =>
        /\ failure.failed_conditions # <<>>
        /\ "stdout" \in DOMAIN failure
        /\ failure.stdout = responses

\* "show" as a prefix, letter by letter and case-sensitive.
HasShowPrefix(text) ==
    /\ Len(text) >= 4
    /\ text[1] = "s" /\ text[2] = "h" /\ text[3] = "o" /\ text[4] = "w"

\* C7: in check mode parse_commands returns exactly the input commands whose
\* text begins with "show" (case-sensitive), in their original order,
\* duplicates included, and appends one warning per removed command naming
\* its text; outside check mode the list is returned unchanged and no
\* warning is appended.
C7_FilterKeepsShowCommands ==
    pc # "parse" =>
        IF check_mode
        THEN LET kept == SelectSeq(params.commands,
                                   LAMBDA c : HasShowPrefix(c.command))
                 dropped == SelectSeq(params.commands,
                                      LAMBDA c : ~HasShowPrefix(c.command))
             IN /\ commands = kept
                /\ warnings = [i \in 1..Len(dropped) |-> dropped[i].command]
        ELSE /\ commands = params.commands
             /\ warnings = <<>>

C7_Witness ==
    /\ check_mode
    /\ pc = "done"
    /\ Len(params.commands) = 2
    /\ Len(commands) = 1
    /\ params.commands[1].command = <<"S", "h", "o", "w">>
    /\ warnings = << <<"S", "h", "o", "w">> >>

\* The lists the check-mode filter can return.
FilterOutputs ==
    { parse_commands(l, TRUE, <<>>).commands : l \in SeqUpTo(CommandItems, MaxCommands) }

\* C8: check-mode filtering is idempotent: given a list that is an output of
\* the filter, the filter returns the same list and adds no warning.
C8_FilterIdempotent ==
    (check_mode /\ pc # "parse" /\ params.commands \in FilterOutputs) =>
        /\ commands = params.commands
        /\ warnings = <<>>

C8_Witness ==
    /\ check_mode
    /\ pc = "done"
    /\ params.commands \in FilterOutputs
    /\ Len(params.commands) = 2


(***************************************************************************)
(* ioscm_config.  A config text is the sequence of its lines and a line    *)
(* the sequence of its words; "" is the empty sequence.                    *)
(***************************************************************************)
HostnameOld == <<"hostname", "old">>
HostnameFoo == <<"hostname", "foo">>
MacroName == <<"macro", "name", "m">>
IgnoredLine == <<"ntp", "clock-period", "1">>
DefaultsLine == <<"service", "defaults">>
BannerLine == <<"banner", "login", "hi">>
CopyRunStart == <<"copy", "running-config", "startup-config\r">>
ShowRun == <<"show", "running-config">>
ShowStart == <<"show", "startup-config">>

\* The running config of the device when the module starts.
RunningText == <<HostnameOld>>

\* The startup configs the device may hold: the running config, the running
\* config but for a line that diff_ignore_lines names, another config.
StartupTexts ==
    { <<HostnameOld>>, <<HostnameOld, IgnoredLine>>, <<<<"hostname", "boot">>>> }

\* The answers of connection.get_diff: config_diff and banner_diff.
DiffResponses ==
    [ config_diff : { <<>>, <<HostnameFoo>>, <<MacroName, HostnameFoo>> },
      banner_diff : { <<>>, <<BannerLine>> } ]

\* connection.get_diff raising ConnectionError.
ConnectionError == [config_diff |-> <<>>, banner_diff |-> <<>>, error |-> TRUE]

\* The truth value of a Python value.
Truthy(v) ==
    CASE v.kind = "None" -> FALSE
      [] v.kind = "str" -> v.text # <<>>
      [] v.kind = "list" -> v.items # <<>>
      [] v.kind = "NetworkConfig" -> v.items # <<>>

\* str.split("\n"): "" gives [""], a text of n lines gives its n lines.
split_lines(text) == IF text = <<>> THEN << <<>> >> ELSE text

\* NetworkConfig(indent=1, contents=..., ignore_lines=...) of netcommon: the
\* text is loaded when contents is true; the items are its lines but for the
\* ignored ones; str() joins the items; len() counts them.
NetworkConfig(cont, ignore_lines) ==
    LET text == IF cont.kind = "str" THEN cont.text
                ELSE IF cont.kind = "NetworkConfig" THEN cont.items
                ELSE <<>>
        ignored == IF Truthy(ignore_lines)
                   THEN {ignore_lines.items[i] : i \in 1..Len(ignore_lines.items)}
                   ELSE {}
    IN [ kind |-> "NetworkConfig",
         config_text |-> IF Truthy(cont) THEN cont ELSE PyNone,
         items |-> IF Truthy(cont)
                   THEN SelectSeq(text, LAMBDA l : l \notin ignored)
                   ELSE <<>> ]

\* A mutant: the ignore_lines are not applied.
sha1_raw(nc) ==
    [digest_of |-> IF nc.config_text.kind = "str" THEN nc.config_text.text
                   ELSE nc.items]

\* NetworkConfig.sha1: the digest of str(self); digests differ when texts do.
sha1(nc) == [digest_of |-> nc.items]

\* get_defaults_flag(module) if defaults else []
get_flags(p) == IF p.defaults THEN <<"all">> ELSE <<>>

\* The text get_config(module, flags) reads from a device.
show_running(running, flags) ==
    IF flags = <<>> THEN running ELSE Append(running, DefaultsLine)

\* The running config after the device merged the commands (blank ones do nothing).
merged(running, cmds) == running \o SelectSeq(cmds, LAMBDA c : c # <<>>)

\* Every combination of option values AnsibleModule lets through
\* (mutually_exclusive, required_if).
ConfigOptions ==
    { p \in [ src : {PyNone, Str(<<HostnameFoo>>)},
              lines : {PyNone, List(<<HostnameFoo>>)},
              before : {PyNone, List(<< <<"default", "hostname">> >>)},
              after : {PyNone, List(<< <<"end">> >>)},
              multiline_delimiter : {Str(<<>>), Str(<<"@">>), Str(<<"@", "@">>)},
              running_config : {PyNone, Str(<< <<"hostname", "cached">> >>)},
              intended_config : {PyNone, Str(<<HostnameOld>>),
                                 Str(<< <<"hostname", "intended">> >>)},
              defaults : BOOLEAN,
              backup : BOOLEAN,
              save_when : {"always", "never", "modified", "changed"},
              diff_against : {"None", "running", "startup", "intended"},
              diff_ignore_lines : {PyNone, List(<<IgnoredLine>>)} ] :
        /\ ~(p.src # PyNone /\ p.lines # PyNone)
        /\ p.diff_against = "intended" => p.intended_config # PyNone }

\* An option that generate_command does not use in a request is left at its
\* default there: the request behaves the same whatever its value.
ReadsOnlyWhatItUses(p, diff) ==
    LET candidate == p.src # PyNone \/ p.lines # PyNone
    IN \* before, after: lines 138-141, under `if any((lines, src))`
       /\ ~candidate => (p.before = PyNone /\ p.after = PyNone)
       \* diff_against: lines 111 and 190, under module._diff
       /\ ~diff => p.diff_against = "None"
       \* intended_config: line 205, under diff_against == "intended"
       /\ p.diff_against # "intended" => p.intended_config = PyNone
       \* diff_ignore_lines: the NetworkConfig objects of lines 163-172, 185-211
       /\ ~(diff \/ p.save_when = "modified") => p.diff_ignore_lines = PyNone
       \* running_config: lines 78 and 178
       /\ ~(candidate \/ diff) => p.running_config = PyNone
       \* multiline_delimiter is used by check_args and edit_banner (line 154):
       \* another delimiter than the default is tried with every candidate,
       \* before, after, check mode and diff mode, the rest at its default
       /\ p.multiline_delimiter # Str(<<"@">>) =>
             /\ p.save_when = "never" /\ ~p.backup /\ ~p.defaults
             /\ p.running_config = PyNone /\ p.diff_ignore_lines = PyNone
             /\ p.diff_against = "None"

\* The values of the Command variables while ioscm_config runs.
CommandIdle ==
    /\ commands = <<>>
    /\ conditionals = <<>>
    /\ retries = 0
    /\ responses = Unbound
    /\ sent = <<>>
    /\ sends = 0
    /\ sleeps = 0
    /\ everTrue = {}
    /\ evaluated = <<>>
    /\ answered = <<>>

InitConfig ==
    /\ pc = "check_args"
    /\ check_mode \in BOOLEAN
    /\ diff_mode \in BOOLEAN
    /\ params \in ConfigOptions
    /\ ReadsOnlyWhatItUses(params, diff_mode)
    /\ warnings = <<>>
    /\ result = NoResult
    /\ failure = NoFailure
    /\ module_warn = <<>>
    /\ devRunning = RunningText
    /\ devStartup \in StartupTexts
    /\ calls = <<>>
    /\ contents = PyNone
    /\ config = PyNone
    /\ running_config = PyNone
    /\ startup_config = PyNone
    /\ response = PyNone
    /\ CommandIdle

\* Config.check_args: the request is rejected.
check_args_fails(p) ==
    /\ Truthy(p.multiline_delimiter)
    /\ Len(p.multiline_delimiter.text) # 1

\* generate_command, lines 99-116: validation, connection, the first fetch.
CheckArgsAndFetch ==
    /\ pc = "check_args"
    /\ IF check_args_fails(params)
       THEN /\ failure' = [msg |-> "multiline_delimiter value can only be a single character"]
            /\ pc' = "failed"
            /\ UNCHANGED <<result, calls, contents, config>>
       ELSE LET flags == get_flags(params)
                fetch == \/ params.backup
                         \/ (diff_mode /\ params.diff_against = "running")
                text == Str(show_running(devRunning, flags))
            IN /\ calls' = calls \o <<[op |-> "get_connection"]>>
                              \o (IF fetch THEN <<[op |-> "get_config", flags |-> flags]>>
                                  ELSE <<>>)
               /\ contents' = IF fetch THEN text ELSE PyNone
               /\ config' = IF fetch THEN NetworkConfig(text, PyNone) ELSE PyNone
               /\ result' = IF fetch /\ params.backup
                            THEN ("__backup__" :> text) @@ ("warnings" :> warnings)
                                 @@ result
                            ELSE ("warnings" :> warnings) @@ result
               /\ pc' = "diff"
               /\ UNCHANGED failure
    /\ UNCHANGED <<check_mode, params, warnings, diff_mode, module_warn,
                   devRunning, devStartup, running_config, startup_config,
                   response>>
    /\ UNCHANGED CommandVars

\* Config.get_candidate_config
get_candidate_config(p) ==
    IF Truthy(p.src) THEN p.src.text
    ELSE IF Truthy(p.lines) THEN p.lines.items
    ELSE <<>>

\* A mutant of get_running_config: the copy already fetched is reused
\* whatever defaults is.
get_running_config_reuses_any(p, current_config, flags, device, log) ==
    IF Truthy(p.running_config)
    THEN [running |-> p.running_config, calls |-> log]
    ELSE IF Truthy(current_config)
    THEN [running |-> current_config, calls |-> log]
    ELSE [running |-> Str(show_running(device, flags)),
          calls |-> Append(log, [op |-> "get_config", flags |-> flags])]

\* Config.get_running_config: the value returned and the calls made.
get_running_config(p, current_config, flags, device, log) ==
    IF Truthy(p.running_config)
    THEN [running |-> p.running_config, calls |-> log]
    ELSE IF ~p.defaults /\ Truthy(current_config)
    THEN [running |-> current_config, calls |-> log]
    ELSE [running |-> Str(show_running(device, flags)),
          calls |-> Append(log, [op |-> "get_config", flags |-> flags])]

\* "macro name" as the words a command starts with.
macro_name == <<"macro", "name">>

\* A mutant of edit_config_or_macro: every list goes the standard way.
edit_config_always(cmds) == [op |-> "edit_config", candidate |-> cmds]

\* Config.edit_config_or_macro: the call made on the connection.
edit_config_or_macro(cmds) ==
    IF startswith(cmds[1], macro_name)
    THEN [op |-> "edit_macro", candidate |-> cmds]
    ELSE [op |-> "edit_config", candidate |-> cmds]

\* A call that raised, as the log of calls records it.
Raising(call) == [i \in 1..Len(call) |-> ("raised" :> TRUE) @@ call[i]]

\* The calls of the apply step that may raise.
Faults == {"none", "edit", "banner"}

\* A mutant of the apply step: the banner is sent only along with line commands.
apply_diff_banner_with_lines(p, check, resp, res, log, device, fault) ==
    IF resp.config_diff # <<>> \/ resp.banner_diff # <<>>
    THEN LET c0 == split_lines(resp.config_diff)
             c1 == IF Truthy(p.before) THEN p.before.items \o c0 ELSE c0
             cmds == IF Truthy(p.after) THEN c1 \o p.after.items ELSE c1
             edit == IF ~check /\ cmds # <<>>
                     THEN <<edit_config_or_macro(cmds)>> ELSE <<>>
             banner == IF ~check /\ resp.banner_diff # <<>> /\ resp.config_diff # <<>>
                       THEN <<[op |-> "edit_banner",
                               candidate |-> resp.banner_diff,
                               multiline_delimiter |-> p.multiline_delimiter.text]>>
                       ELSE <<>>
             recorded == ("commands" :> cmds) @@ ("updates" :> cmds)
                         @@ ("banners" :> resp.banner_diff) @@ res
         IN [ possible |-> /\ fault = "edit" => edit # <<>>
                           /\ fault = "banner" => banner # <<>>,
              raised |-> fault # "none",
              result |-> IF fault = "none" THEN ("changed" :> TRUE) @@ recorded
                         ELSE recorded,
              calls |-> CASE fault = "edit" -> log \o Raising(edit)
                          [] fault = "banner" -> log \o edit \o Raising(banner)
                          [] OTHER -> log \o edit \o banner,
              device |-> IF check \/ fault = "edit" THEN device
                         ELSE IF fault = "banner" THEN merged(device, cmds)
                         ELSE merged(device, cmds) \o resp.banner_diff ]
    ELSE [possible |-> fault = "none", raised |-> FALSE,
          result |-> res, calls |-> log, device |-> device]

\* A mutant of the apply step: the banner is sent although the edit raised.
apply_diff_goes_on(p, check, resp, res, log, device, fault) ==
    IF resp.config_diff # <<>> \/ resp.banner_diff # <<>>
    THEN LET c0 == split_lines(resp.config_diff)
             c1 == IF Truthy(p.before) THEN p.before.items \o c0 ELSE c0
             cmds == IF Truthy(p.after) THEN c1 \o p.after.items ELSE c1
             edit == IF ~check /\ cmds # <<>>
                     THEN <<edit_config_or_macro(cmds)>> ELSE <<>>
             banner == IF ~check /\ resp.banner_diff # <<>>
                       THEN <<[op |-> "edit_banner",
                               candidate |-> resp.banner_diff,
                               multiline_delimiter |-> p.multiline_delimiter.text]>>
                       ELSE <<>>
             recorded == ("commands" :> cmds) @@ ("updates" :> cmds)
                         @@ ("banners" :> resp.banner_diff) @@ res
         IN [ possible |-> /\ fault = "edit" => edit # <<>>
                           /\ fault = "banner" => banner # <<>>,
              raised |-> fault # "none",
              result |-> IF fault = "none" THEN ("changed" :> TRUE) @@ recorded
                         ELSE recorded,
              calls |-> CASE fault = "edit" -> log \o Raising(edit) \o banner
                          [] fault = "banner" -> log \o edit \o Raising(banner)
                          [] OTHER -> log \o edit \o banner,
              device |-> IF check \/ fault = "edit" THEN device
                         ELSE IF fault = "banner" THEN merged(device, cmds)
                         ELSE merged(device, cmds) \o resp.banner_diff ]
    ELSE [possible |-> fault = "none", raised |-> FALSE,
          result |-> res, calls |-> log, device |-> device]

\* generate_command, lines 136-156: the commands recorded and the calls made;
\* fault names the call that raises, if one does.
apply_diff(p, check, resp, res, log, device, fault) ==
    IF resp.config_diff # <<>> \/ resp.banner_diff # <<>>
    THEN LET c0 == split_lines(resp.config_diff)
             c1 == IF Truthy(p.before) THEN p.before.items \o c0 ELSE c0
             cmds == IF Truthy(p.after) THEN c1 \o p.after.items ELSE c1
             edit == IF ~check /\ cmds # <<>>
                     THEN <<edit_config_or_macro(cmds)>> ELSE <<>>
             banner == IF ~check /\ resp.banner_diff # <<>>
                       THEN <<[op |-> "edit_banner",
                               candidate |-> resp.banner_diff,
                               multiline_delimiter |-> p.multiline_delimiter.text]>>
                       ELSE <<>>
             recorded == ("commands" :> cmds) @@ ("updates" :> cmds)
                         @@ ("banners" :> resp.banner_diff) @@ res
         IN [ possible |-> /\ fault = "edit" => edit # <<>>
                           /\ fault = "banner" => banner # <<>>,
              raised |-> fault # "none",
              result |-> IF fault = "none" THEN ("changed" :> TRUE) @@ recorded
                         ELSE recorded,
              calls |-> CASE fault = "edit" -> log \o Raising(edit)
                          [] fault = "banner" -> log \o edit \o Raising(banner)
                          [] OTHER -> log \o edit \o banner,
              device |-> IF check \/ fault = "edit" THEN device
                         ELSE IF fault = "banner" THEN merged(device, cmds)
                         ELSE merged(device, cmds) \o resp.banner_diff ]
    ELSE [possible |-> fault = "none", raised |-> FALSE,
          result |-> res, calls |-> log, device |-> device]

\* generate_command, lines 117-156: candidate, running, get_diff, apply.
DiffAndApply ==
    /\ pc = "diff"
    /\ IF ~(Truthy(params.lines) \/ Truthy(params.src))
       THEN /\ pc' = "save"
            /\ UNCHANGED <<result, failure, calls, devRunning, response>>
       ELSE \E answer \in DiffResponses \cup {ConnectionError}, fault \in Faults :
               LET got == get_running_config(params, contents, get_flags(params),
                                             devRunning, calls)
                   get_diff == <<[op |-> "get_diff",
                                  candidate |-> get_candidate_config(params),
                                  running |-> got.running]>>
               IN IF answer = ConnectionError
                  THEN \* except ConnectionError: fail_json
                       /\ fault = "none"
                       /\ failure' = [msg |-> "ConnectionError"]
                       /\ calls' = got.calls \o Raising(get_diff)
                       /\ pc' = "failed"
                       /\ UNCHANGED <<result, devRunning, response>>
                  ELSE LET applied == apply_diff(params, check_mode, answer, result,
                                                 got.calls \o get_diff, devRunning,
                                                 fault)
                       IN /\ applied.possible
                          /\ result' = applied.result
                          /\ calls' = applied.calls
                          /\ devRunning' = applied.device
                          /\ response' = answer
                          /\ pc' = IF applied.raised THEN "raised" ELSE "save"
                          /\ UNCHANGED failure
    /\ UNCHANGED <<check_mode, params, warnings, diff_mode, module_warn,
                   devStartup, contents, config, running_config, startup_config>>
    /\ UNCHANGED CommandVars


SaveSkipped ==
    "Skipping command copy running-config startup-config due to check_mode.  Configuration not copied to non-volatile storage"

\* A mutant of save_config: the command is sent whatever the mode.
save_config_unchecked(check, res, log, warn, running, startup) ==
    [ result |-> ("changed" :> TRUE) @@ res,
      calls |-> Append(log, [op |-> "run_commands", commands |-> <<CopyRunStart>>]),
      module_warn |-> warn,
      startup |-> running ]

\* A mutant of save_config: check mode skips the command without a warning.
save_config_silent(check, res, log, warn, running, startup) ==
    [ result |-> ("changed" :> TRUE) @@ res,
      calls |-> IF ~check
                THEN Append(log, [op |-> "run_commands", commands |-> <<CopyRunStart>>])
                ELSE log,
      module_warn |-> warn,
      startup |-> IF ~check THEN running ELSE startup ]

\* A mutant of save_config: changed is left as the apply step set it.
save_config_unmarked(check, res, log, warn, running, startup) ==
    [ result |-> res,
      calls |-> IF ~check
                THEN Append(log, [op |-> "run_commands", commands |-> <<CopyRunStart>>])
                ELSE log,
      module_warn |-> IF check THEN Append(warn, SaveSkipped) ELSE warn,
      startup |-> IF ~check THEN running ELSE startup ]

\* A mutant of save_config: the command is put ahead of the calls made so far.
save_config_first(check, res, log, warn, running, startup) ==
    [ result |-> ("changed" :> TRUE) @@ res,
      calls |-> IF ~check
                THEN <<[op |-> "run_commands", commands |-> <<CopyRunStart>>]>> \o log
                ELSE log,
      module_warn |-> IF check THEN Append(warn, SaveSkipped) ELSE warn,
      startup |-> IF ~check THEN running ELSE startup ]

\* Config.save_config: the result, the calls, the warnings and the device's
\* startup config after it.
save_config(check, res, log, warn, running, startup) ==
    [ result |-> ("changed" :> TRUE) @@ res,
      calls |-> IF ~check
                THEN Append(log, [op |-> "run_commands", commands |-> <<CopyRunStart>>])
                ELSE log,
      module_warn |-> IF check THEN Append(warn, SaveSkipped) ELSE warn,
      startup |-> IF ~check THEN running ELSE startup ]

\* A mutant of the decision: "changed" saves like "always".
should_save_changed_always(save_when, changed, rc, sc) ==
    \/ save_when = "always"
    \/ save_when = "modified" /\ sha1(rc) # sha1(sc)
    \/ save_when = "changed"

\* A mutant of the decision: "modified" saves whatever the digests are.
should_save_modified_always(save_when, changed, rc, sc) ==
    \/ save_when = "always"
    \/ save_when = "modified"
    \/ save_when = "changed" /\ changed

\* generate_command, lines 159-176: whether save_config is called.
should_save(save_when, changed, rc, sc) ==
    \/ save_when = "always"
    \/ save_when = "modified" /\ sha1(rc) # sha1(sc)
    \/ save_when = "changed" /\ changed

\* generate_command, lines 157-176: the save decision.
Save ==
    /\ pc = "save"
    /\ LET modified == params.save_when = "modified"
           log == IF modified
                  THEN Append(calls, [op |-> "run_commands",
                                      commands |-> <<ShowRun, ShowStart>>])
                  ELSE calls
           rc == NetworkConfig(Str(devRunning), params.diff_ignore_lines)
           sc == NetworkConfig(Str(devStartup), params.diff_ignore_lines)
           saved == IF should_save(params.save_when, result.changed, rc, sc)
                    THEN save_config(check_mode, result, log, module_warn,
                                     devRunning, devStartup)
                    ELSE [result |-> result, calls |-> log,
                          module_warn |-> module_warn, startup |-> devStartup]
       IN /\ result' = saved.result
          /\ calls' = saved.calls
          /\ module_warn' = saved.module_warn
          /\ devStartup' = saved.startup
          /\ running_config' = IF modified THEN rc ELSE params.running_config
          /\ startup_config' = IF modified THEN sc ELSE PyNone
    /\ pc' = "diff_against"
    /\ UNCHANGED <<check_mode, params, warnings, failure, diff_mode, devRunning,
                   contents, config, response>>
    /\ UNCHANGED CommandVars

DiffSkipped == "unable to perform diff against running-config due to check mode"

\* str(NetworkConfig): the items joined.
str(nc) == nc.items

\* A mutant of running_diff_skipped: check mode is not looked at.
running_diff_never_skipped(da, check) == FALSE

\* generate_command, lines 190-195: the diff against running is skipped.
running_diff_skipped(da, check) == da = "running" /\ check

\* A mutant of diff_sides: intended is laid out like startup and running.
diff_sides_base_first(da, rc, base) ==
    IF da \in {"intended", "startup", "running"}
    THEN [before |-> str(base), after |-> str(rc)]
    ELSE [before |-> <<>>, after |-> <<>>]

\* generate_command, lines 213-219: the before and the after of the diff block.
diff_sides(da, rc, base) ==
    IF da = "intended" THEN [before |-> str(rc), after |-> str(base)]
    ELSE IF da \in {"startup", "running"} THEN [before |-> str(base), after |-> str(rc)]
    ELSE [before |-> <<>>, after |-> <<>>]

\* A mutant of DiffAgainst: with no diff_against the startup config is the base.
DiffAgainst_defaults_to_startup ==
    /\ pc = "diff_against"
    /\ IF ~diff_mode
       THEN UNCHANGED <<result, calls, module_warn, contents, running_config>>
       ELSE LET da == params.diff_against
                fetch_run == ~Truthy(running_config)
                log1 == IF fetch_run
                        THEN Append(calls, [op |-> "run_commands",
                                            commands |-> <<ShowRun>>])
                        ELSE calls
                cont1 == IF fetch_run THEN Str(devRunning) ELSE running_config
                rc == NetworkConfig(cont1, params.diff_ignore_lines)
                fetch_start == da = "startup" /\ ~Truthy(startup_config)
                skipped == running_diff_skipped(da, check_mode)
                cont2 == CASE da = "running" ->
                                IF skipped THEN PyNone ELSE config.config_text
                           [] da = "startup" ->
                                IF fetch_start THEN Str(devStartup)
                                ELSE startup_config.config_text
                           [] da = "intended" -> params.intended_config
                           [] OTHER -> Str(devStartup)
                base == NetworkConfig(cont2, params.diff_ignore_lines)
                differs == cont2.kind # "None" /\ sha1(rc) # sha1(base)
            IN /\ calls' = IF fetch_start
                           THEN Append(log1, [op |-> "run_commands",
                                              commands |-> <<ShowStart>>])
                           ELSE log1
               /\ module_warn' = IF skipped
                                 THEN Append(module_warn, DiffSkipped)
                                 ELSE module_warn
               /\ contents' = cont2
               /\ running_config' = rc
               /\ result' = IF differs
                            THEN ("changed" :> TRUE)
                                 @@ ("diff" :> diff_sides(da, rc, base))
                                 @@ result
                            ELSE result
    /\ pc' = "finish"
    /\ UNCHANGED <<check_mode, params, warnings, failure, diff_mode, devRunning,
                   devStartup, config, startup_config, response>>
    /\ UNCHANGED CommandVars

\* generate_command, lines 177-225: the diff against running, startup or intended.
DiffAgainst ==
    /\ pc = "diff_against"
    /\ IF ~diff_mode
       THEN UNCHANGED <<result, calls, module_warn, contents, running_config>>
       ELSE LET da == params.diff_against
                fetch_run == ~Truthy(running_config)
                log1 == IF fetch_run
                        THEN Append(calls, [op |-> "run_commands",
                                            commands |-> <<ShowRun>>])
                        ELSE calls
                cont1 == IF fetch_run THEN Str(devRunning) ELSE running_config
                rc == NetworkConfig(cont1, params.diff_ignore_lines)
                fetch_start == da = "startup" /\ ~Truthy(startup_config)
                skipped == running_diff_skipped(da, check_mode)
                cont2 == CASE da = "running" ->
                                IF skipped THEN PyNone ELSE config.config_text
                           [] da = "startup" ->
                                IF fetch_start THEN Str(devStartup)
                                ELSE startup_config.config_text
                           [] da = "intended" -> params.intended_config
                           [] OTHER -> cont1
                base == NetworkConfig(cont2, params.diff_ignore_lines)
                differs == cont2.kind # "None" /\ sha1(rc) # sha1(base)
            IN /\ calls' = IF fetch_start
                           THEN Append(log1, [op |-> "run_commands",
                                              commands |-> <<ShowStart>>])
                           ELSE log1
               /\ module_warn' = IF skipped
                                 THEN Append(module_warn, DiffSkipped)
                                 ELSE module_warn
               /\ contents' = cont2
               /\ running_config' = rc
               /\ result' = IF differs
                            THEN ("changed" :> TRUE)
                                 @@ ("diff" :> diff_sides(da, rc, base))
                                 @@ result
                            ELSE result
    /\ pc' = "finish"
    /\ UNCHANGED <<check_mode, params, warnings, failure, diff_mode, devRunning,
                   devStartup, config, startup_config, response>>
    /\ UNCHANGED CommandVars

IdempotencyNote ==
    "To ensure idempotency and correct diff the input configuration lines should be similar to how they appear if present in the running configuration on device"

\* generate_command, lines 227-240: the closing warning; the result is returned.
Finish ==
    /\ pc = "finish"
    /\ LET msg == IF Truthy(params.src)
                  THEN <<IdempotencyNote, " including the indentation">>
                  ELSE <<IdempotencyNote>>
           warn == result.changed /\ (Truthy(params.src) \/ Truthy(params.lines))
       IN /\ warnings' = IF warn THEN Append(warnings, msg) ELSE warnings
          /\ result' = ("warnings" :> warnings') @@ result
    /\ pc' = "done"
    /\ UNCHANGED <<check_mode, params, failure>>
    /\ UNCHANGED ConfigVars
    /\ UNCHANGED CommandVars

NextConfig == CheckArgsAndFetch \/ DiffAndApply \/ Save \/ DiffAgainst \/ Finish

SpecConfig == InitConfig /\ [][NextConfig]_vars

\* Either module is run.
Init == InitCommand \/ InitConfig

Next == NextCommand \/ NextConfig

Spec == Init /\ [][Next]_vars


(***************************************************************************)
(* Properties of check mode and of the save decision.                      *)
(***************************************************************************)
\* run_commands(module, "copy running-config startup-config\r")
SaveCall == [op |-> "run_commands", commands |-> <<CopyRunStart>>]

\* A call that changes the device: an edit, or a command that is not a show.
MutatingCall(c) ==
    \/ c.op \in {"edit_config", "edit_macro", "edit_banner"}
    \/ /\ c.op = "run_commands"
       /\ \E i \in 1..Len(c.commands) : c.commands[i][1] # "show"

\* C9: in check mode no call that changes the device is issued: the
\* reconcile controller makes no config-edit, macro-edit, banner-edit or save
\* call, and the command executor sends no command whose text does not
\* begin with "show".
C9_CheckModeNoMutation ==
    check_mode =>
        /\ \A i \in 1..Len(calls) : ~MutatingCall(calls[i])
        /\ \A i \in 1..Len(sent) : HasShowPrefix(sent[i].command)

C9_Witness ==
    /\ check_mode
    /\ pc = "done"
    /\ calls # <<>>
    /\ params.save_when = "changed"
    /\ "commands" \in DOMAIN result
    /\ result.banners # <<>>
    /\ module_warn = <<SaveSkipped>>
    /\ Len(calls) = 2

\* The digest compared by the save decision: the lines of the text but for
\* those diff_ignore_lines names.
Digest(text) ==
    SelectSeq(text, LAMBDA l : ~(params.diff_ignore_lines # PyNone /\ l = IgnoredLine))

\* The calls added by the step being taken.
NewCalls == SubSeq(calls', Len(calls) + 1, Len(calls'))

Issued == \E i \in 1..Len(NewCalls) : NewCalls[i] = SaveCall

\* The number of save commands among the calls made so far.
Saves == Cardinality({i \in 1..Len(calls) : calls[i] = SaveCall})

\* C10: outside check mode the save step issues the save command always with
\* save_when = always, never with never, with modified exactly when the
\* digests of the running and startup configs it fetched differ, with
\* changed exactly when the apply step left changed = true; no other step
\* issues it.
C10_SaveStep ==
    (~check_mode /\ pc = "save") =>
        /\ CASE params.save_when = "always" -> Issued
             [] params.save_when = "never" -> ~Issued
             [] params.save_when = "modified" ->
                   /\ NewCalls[1] = [op |-> "run_commands",
                                     commands |-> <<ShowRun, ShowStart>>]
                   /\ Issued <=> (Digest(devRunning) # Digest(devStartup))
             [] params.save_when = "changed" -> Issued <=> result.changed
        /\ Issued => devStartup' = devRunning
        /\ ~Issued => devStartup' = devStartup

C10_OnlySaveStepSaves == (~check_mode /\ pc # "save") => ~Issued

C10_SaveDecisionTable ==
    /\ [][C10_SaveStep]_vars
    /\ [][C10_OnlySaveStepSaves]_vars
    /\ [](params.save_when = "never" => Saves = 0)
    /\ []((~check_mode /\ params.save_when = "always"
           /\ pc \in {"diff_against", "finish", "done"}) => Saves = 1)

C10_Witness ==
    /\ ~check_mode
    /\ pc = "diff_against"
    /\ params.save_when = "modified"
    /\ params.diff_ignore_lines # PyNone
    /\ "commands" \in DOMAIN result
    /\ calls[Len(calls)] = SaveCall
    /\ devStartup = devRunning

(***************************************************************************)
(* Properties of the save in check mode and of save_when = always.         *)
(***************************************************************************)
\* The save decision of the step being taken, from the device's texts.
Persist ==
    CASE params.save_when = "always" -> TRUE
      [] params.save_when = "never" -> FALSE
      [] params.save_when = "modified" -> Digest(devRunning) # Digest(devStartup)
      [] params.save_when = "changed" -> result.changed

C11_SaveStep ==
    (check_mode /\ pc = "save" /\ Persist) =>
        /\ ~Issued
        /\ devStartup' = devStartup
        /\ module_warn' = Append(module_warn, SaveSkipped)
        /\ result'.changed
        /\ failure' = NoFailure
        /\ pc' = "diff_against"

C11_Outcome ==
    (check_mode /\ \E i \in 1..Len(module_warn) : module_warn[i] = SaveSkipped) =>
        /\ Saves = 0
        /\ result.changed
        /\ failure = NoFailure
        /\ pc \in {"diff_against", "finish", "done"}

\* C11: in check mode a save step that decides to persist sends no save
\* command, warns that the save was skipped, sets changed and goes on; the
\* invocation that warned so has sent no save command, has changed = true
\* and has not failed.
C11_CheckModeSaveSkipped ==
    /\ [][C11_SaveStep]_vars
    /\ []C11_Outcome

C11_Witness ==
    /\ check_mode
    /\ pc = "done"
    /\ params.save_when = "modified"
    /\ module_warn = <<SaveSkipped>>
    /\ "commands" \notin DOMAIN result
    /\ result.changed
    /\ devStartup # devRunning

\* C12: with save_when = always every outcome returned has changed = true,
\* also when nothing was applied because the diffs were empty or no lines
\* or src were given.
C12_AlwaysMeansChanged ==
    (params.save_when = "always" /\ pc \in {"diff_against", "finish", "done"}) =>
        result.changed

C12_Witness ==
    /\ pc = "done"
    /\ params.save_when = "always"
    /\ params.lines = PyNone /\ params.src = PyNone
    /\ "commands" \notin DOMAIN result
    /\ "diff" \notin DOMAIN result
    /\ check_mode
    /\ result.changed

(***************************************************************************)
(* Properties of the apply step.                                           *)
(***************************************************************************)
Before == IF Truthy(params.before) THEN params.before.items ELSE <<>>

After == IF Truthy(params.after) THEN params.after.items ELSE <<>>

\* The step after connection.get_diff answered.
Applied == pc = "save" /\ response # PyNone

EditCalls == {i \in 1..Len(calls) : calls[i].op \in {"edit_config", "edit_macro"}}

BannerCalls == {i \in 1..Len(calls) : calls[i].op = "edit_banner"}

\* C13: after the apply step of a request with lines or src, a non-empty
\* line diff or banner diff leaves commands = before, the diff's lines,
\* after, updates = commands and changed = true; two empty diffs leave no
\* commands and no updates, send nothing and leave changed = false.
C13_CommandsRecorded ==
    Applied =>
        IF response.config_diff # <<>> \/ response.banner_diff # <<>>
        THEN /\ "commands" \in DOMAIN result
             /\ result.commands = Before \o response.config_diff \o After
             /\ result.updates = result.commands
             /\ result.changed
        ELSE /\ "commands" \notin DOMAIN result
             /\ "updates" \notin DOMAIN result
             /\ EditCalls = {} /\ BannerCalls = {}
             /\ ~result.changed

\* The apply step is over and the invocation goes on.
AfterApply == pc \in {"save", "diff_against", "finish", "done"}

\* A command that begins with "macro name".
IsMacro(c) == Len(c) >= 2 /\ c[1] = "macro" /\ c[2] = "name"

\* C14: outside check mode, once the apply step recorded a non-empty list, one
\* call and no more went to the macro-edit or the config-edit path, with
\* that list: to the macro-edit path exactly when the first command of the
\* list (before first) begins with "macro name".
C14_OneEditPath ==
    (~check_mode /\ AfterApply /\ response # PyNone
       /\ "commands" \in DOMAIN result /\ result.commands # <<>>) =>
        /\ Cardinality(EditCalls) = 1
        /\ \A i \in EditCalls :
              /\ calls[i].candidate = result.commands
              /\ calls[i].op = "edit_macro" <=> IsMacro(result.commands[1])
              /\ calls[i].op = "edit_config" <=> ~IsMacro(result.commands[1])

C14_Witness ==
    /\ ~check_mode
    /\ pc = "done"
    /\ response # PyNone
    /\ "commands" \in DOMAIN result
    /\ IsMacro(result.commands[1])
    /\ Len(result.commands) = 3
    /\ \E i \in EditCalls : calls[i].op = "edit_macro"

\* C15: outside check mode the apply step makes a banner-edit call, with the
\* configured multiline delimiter, exactly when get_diff answered a
\* non-empty banner diff, whether the line diff is empty or not.
C15_BannerIffBannerDiff ==
    (~check_mode /\ AfterApply) =>
        /\ BannerCalls # {} <=> (response # PyNone /\ response.banner_diff # <<>>)
        /\ Cardinality(BannerCalls) <= 1
        /\ \A i \in BannerCalls :
              /\ calls[i].candidate = response.banner_diff
              /\ calls[i].multiline_delimiter = params.multiline_delimiter.text

C15_Witness ==
    /\ ~check_mode
    /\ pc = "done"
    /\ response # PyNone
    /\ response.config_diff = <<>>
    /\ BannerCalls # {}

(***************************************************************************)
(* Properties of the running-config resolution.                            *)
(***************************************************************************)
HasCandidate == params.lines # PyNone \/ params.src # PyNone

\* The get_config calls and the get_diff calls of the step being taken.
NewFetches == {i \in 1..Len(NewCalls) : NewCalls[i].op = "get_config"}

NewDiffs == {i \in 1..Len(NewCalls) : NewCalls[i].op = "get_diff"}

\* What a fetch with the flags of the request reads from the device.
ExpectedFlags == IF params.defaults THEN <<"all">> ELSE <<>>

ExpectedText ==
    Str(IF params.defaults THEN devRunning \o <<DefaultsLine>> ELSE devRunning)

C16_Step ==
    (pc = "diff" /\ HasCandidate) =>
        /\ Cardinality(NewDiffs) = 1
        /\ \A d \in NewDiffs :
              CASE params.running_config # PyNone ->
                     /\ NewFetches = {}
                     /\ NewCalls[d].running = params.running_config
                [] params.running_config = PyNone /\ ~params.defaults
                     /\ contents # PyNone ->
                     /\ NewFetches = {}
                     /\ NewCalls[d].running = contents
                [] OTHER ->
                     /\ Cardinality(NewFetches) = 1
                     /\ \A f \in NewFetches :
                           f < d /\ NewCalls[f].flags = ExpectedFlags
                     /\ NewCalls[d].running = ExpectedText

\* C16: the running config handed to get_diff is the running_config option
\* when it is set, with no fetch; else, with defaults false and a config
\* already fetched, that config, with no fetch; else the config fetched by
\* one get_config with the flags of the request.
C16_RunningResolution == [][C16_Step]_vars

C16_Witness ==
    /\ pc = "save"
    /\ params.backup /\ ~params.defaults
    /\ params.running_config = PyNone
    /\ Cardinality({i \in 1..Len(calls) : calls[i].op = "get_config"}) = 1
    /\ \E i \in 1..Len(calls) : calls[i].op = "get_diff" /\ calls[i].running = contents

\* C17: the running config is not fetched again by the resolution when a
\* copy fetched earlier in the invocation with the same flags is at hand:
\* an invocation makes at most one get_config call for each flags value.
C17_NoSecondFetch ==
    \A i, j \in 1..Len(calls) :
        (calls[i].op = "get_config" /\ calls[j].op = "get_config"
           /\ calls[i].flags = calls[j].flags) => i = j

(***************************************************************************)
(* Properties of the diff against running, startup or intended.            *)
(***************************************************************************)
\* The running configs an invocation works with: the device's, and the one
\* given as the running_config option.
RunningTexts ==
    {Digest(devRunning)} \cup
    (IF params.running_config # PyNone THEN {Digest(params.running_config.text)}
     ELSE {})

\* The running config the device held before the apply step, as the first
\* fetch of the invocation reads it.
Snapshot ==
    Digest(IF params.defaults THEN RunningText \o <<DefaultsLine>> ELSE RunningText)

\* The startup config the invocation read: at the save step when it did, at
\* the diff step otherwise.
StartupRead ==
    Digest(IF startup_config # PyNone THEN startup_config.config_text.text
           ELSE devStartup)

Attached == "diff" \notin DOMAIN result /\ "diff" \in DOMAIN result'

C18_Step ==
    Attached =>
        /\ diff_mode
        /\ CASE params.diff_against = "running" ->
                   /\ ~check_mode
                   /\ result'.diff.before = Snapshot
                   /\ result'.diff.after \in RunningTexts
             [] params.diff_against = "startup" ->
                   /\ result'.diff.before = StartupRead
                   /\ result'.diff.after \in RunningTexts
             [] params.diff_against = "intended" ->
                   /\ result'.diff.before \in RunningTexts
                   /\ result'.diff.after = Digest(params.intended_config.text)
             [] OTHER -> FALSE

RunningCompared ==
    IF params.save_when # "modified" /\ params.running_config # PyNone
    THEN Digest(params.running_config.text)
    ELSE Digest(devRunning)

\* The two normalized texts the diff step compares; none when the diff
\* against running is skipped.
Compared ==
    CASE params.diff_against = "running" ->
           IF check_mode THEN <<>> ELSE <<Snapshot, RunningCompared>>
      [] params.diff_against = "startup" -> <<StartupRead, RunningCompared>>
      [] params.diff_against = "intended" ->
           <<RunningCompared, Digest(params.intended_config.text)>>
      [] OTHER -> <<RunningCompared, RunningCompared>>

C19_Step ==
    /\ Attached => pc = "diff_against"
    /\ pc = "diff_against" =>
          /\ Attached <=> (diff_mode /\ Compared # <<>> /\ Compared[1] # Compared[2])
          /\ Attached => result'.changed
          /\ ~Attached => result' = result

\* C19: the diff step attaches a diff block exactly when diff output is
\* asked for and the two normalized texts differ; attaching it sets changed
\* = true; a diff step that attaches none leaves the outcome, changed
\* included, as it was; no other step attaches one.
C19_DiffIffHashesDiffer == [][C19_Step]_vars

C19_Witness ==
    /\ pc = "done"
    /\ "diff" \in DOMAIN result
    /\ "commands" \notin DOMAIN result
    /\ params.save_when \in {"never", "changed"}
    /\ params.diff_ignore_lines # PyNone
    /\ result.changed
    /\ calls[Len(calls)] # SaveCall

C20_Step ==
    (pc = "diff_against" /\ check_mode /\ diff_mode
       /\ params.diff_against = "running") =>
        /\ module_warn' = Append(module_warn, DiffSkipped)
        /\ result' = result
        /\ failure' = NoFailure
        /\ pc' = "finish"

C20_Outcome ==
    (check_mode /\ diff_mode /\ params.diff_against = "running") =>
        /\ "diff" \notin DOMAIN result
        /\ pc = "done" =>
              /\ failure = NoFailure
              /\ \E i \in 1..Len(module_warn) : module_warn[i] = DiffSkipped

\* C20: in check mode with diff output asked against running the diff step
\* warns that the diff is skipped, attaches no diff block, leaves changed as
\* it was and goes on to return the outcome.
C20_CheckModeRunningDiffSkipped ==
    /\ [][C20_Step]_vars
    /\ []C20_Outcome

C20_Witness ==
    /\ check_mode /\ diff_mode
    /\ params.diff_against = "running"
    /\ pc = "done"
    /\ params.defaults
    /\ ~result.changed
    /\ module_warn = <<DiffSkipped>>

(***************************************************************************)
(* Properties of failures.                                                 *)
(***************************************************************************)
\* C21: a request whose multiline delimiter is not one character long (none
\* or two and more) is rejected by validation before the device is
\* contacted: no connection is obtained and no call is made.
C21_BadDelimiterRejected ==
    Len(params.multiline_delimiter.text) # 1 =>
        /\ calls = <<>>
        /\ pc \in {"check_args", "failed"}
        /\ pc = "failed" =>
              failure.msg = "multiline_delimiter value can only be a single character"

\* The send of the step being taken raised.
SendRaised == pc = "send" /\ pc' = "raised"

C22_Step ==
    /\ SendRaised =>
          /\ sends' = sends + 1
          /\ sleeps' = sleeps
          /\ conditionals' = conditionals
          /\ evaluated' = evaluated
          /\ responses' = responses
          /\ result' = NoResult /\ failure' = NoFailure
    /\ pc # "raised"

\* C22: a send that raises ends the run at once: the step evaluates no
\* predicate, sleeps no interval and sets no outcome, and no step follows
\* it, so that no further send is made; the sleeps made are those between
\* the sends.
C22_SendErrorPropagates ==
    /\ [][C22_Step]_vars
    /\ []((pc = "raised" /\ sends >= 1) =>
            /\ sleeps = sends - 1
            /\ result = NoResult /\ failure = NoFailure)

C22_Witness ==
    /\ pc = "raised"
    /\ sends = 2
    /\ Len(conditionals) = 2
    /\ Len(evaluated) = 2
    /\ params.match = "all"

\* Some supplied predicate cannot be built.
BadPredicate == \E i \in 1..Len(WaitFor) : WaitFor[i] = Malformed

\* C23: when a supplied predicate cannot be built the operation fails
\* before the retry loop: no command is sent, no interval is slept and no
\* outcome is returned.
C23_BuildFailsBeforeLoop ==
    BadPredicate =>
        /\ pc \in {"parse", "invalid", "raised"}
        /\ sends = 0 /\ sent = <<>>
        /\ sleeps = 0
        /\ evaluated = <<>>
        /\ result = NoResult
        /\ pc = "invalid" => failure # NoFailure

C23_Witness ==
    /\ pc = "invalid"
    /\ check_mode
    /\ warnings # <<>>
    /\ Len(WaitFor) = 2
    /\ WaitFor[2] = Malformed
    /\ params.retries = 2

\* The calls that raised, among the calls made so far.
RaisedCalls == {i \in 1..Len(calls) : "raised" \in DOMAIN calls[i]}

\* The calls with a given operation.
CallsOf(op) == {i \in 1..Len(calls) : calls[i].op = op}

\* C24: a get_diff, config-edit, macro-edit or banner-edit call that raises
\* is the last device call of the invocation: it is not made again, no call
\* and no save command follows it, the invocation has ended and returns no
\* outcome.
C24_ApplyFailureIsFinal ==
    /\ \A i \in RaisedCalls :
          /\ calls[i].op \in {"get_diff", "edit_config", "edit_macro", "edit_banner"}
          /\ i = Len(calls)
          /\ Cardinality(CallsOf(calls[i].op)) = 1
          /\ pc = (IF calls[i].op = "get_diff" THEN "failed" ELSE "raised")
    /\ (pc = "raised" /\ calls # <<>>) => RaisedCalls # {}
    /\ RaisedCalls # {} =>
          /\ Saves = 0
          /\ devStartup \in StartupTexts
          /\ ~result.changed
          /\ "diff" \notin DOMAIN result

C24_Witness ==
    /\ pc = "raised"
    /\ params.save_when = "always"
    /\ calls # <<>>
    /\ calls[Len(calls)].op = "edit_banner"
    /\ EditCalls # {}
    /\ diff_mode

(***************************************************************************)
(* Properties of the iterations of the retry loop.                         *)
(***************************************************************************)
\* The predicates evaluated in the latest iteration, in order.
EvaluatedItems == [i \in 1..Len(evaluated) |-> evaluated[i].item]

\* An iteration has evaluated its predicates and no send has followed.
IterationDone == sends >= 1 /\ pc \in {"sleep", "while", "return", "done", "failed"}

\* The supplied predicates that hold on the responses of the last send.
Hits == {i \in 1..Len(Supplied) : Holds(Supplied[i], responses)}

Min(S) == CHOOSE m \in S : \A n \in S : m <= n

\* C25: under match = any an iteration evaluates every pending predicate
\* against the responses of its round, in supplied order, also those that
\* come after a satisfied one.
C25_AnyEvaluatesAll ==
    (params.match = "any" /\ IterationDone) => EvaluatedItems = Supplied

\* C25, as the code has it: under match = any an iteration evaluates the
\* pending predicates in supplied order up to the first one that holds and
\* none after it; the loop stops exactly when one held.
C25_AnyStopsEvaluatingAtFirstHit ==
    (params.match = "any" /\ IterationDone) =>
        /\ EvaluatedItems =
              (IF Hits = {} THEN Supplied ELSE SubSeq(Supplied, 1, Min(Hits)))
        /\ pc = "sleep" => Hits = {}
        /\ Hits # {} => pc \in {"return", "done"}

C25_Witness ==
    /\ params.match = "any"
    /\ pc = "done"
    /\ Len(Supplied) = 2
    /\ Hits = {1, 2}
    /\ Len(evaluated) = 1

\* C26: the interval is slept only between two sends: a run that has ended,
\* satisfied or exhausted, has slept once less than it has sent.
C26_SleepsBetweenSends ==
    (pc \in {"done", "failed"} /\ sends >= 1) => sleeps = sends - 1

C27_Step ==
    /\ pc' # "parse"
    /\ pc = "parse" => sends = 0
    /\ pc # "parse" => (commands' = commands /\ warnings' = warnings)
    /\ pc = "send" =>
          /\ sent' = commands
          /\ sends >= 1 => sent' = sent

\* C27: the commands are parsed, and filtered in check mode, once, before
\* the first send; after that the command list and the warnings never
\* change, and every round sends that list, the same as the round before.
C27_FilterOnceSameCommands == [][C27_Step]_vars

C27_Witness ==
    /\ check_mode
    /\ pc = "failed"
    /\ sends = 3
    /\ Len(warnings) = 1
    /\ Len(sent) = 1

C28_Step ==
    /\ pc' = "evaluate" => pc = "send"
    /\ pc = "evaluate" =>
          \A i \in 1..Len(evaluated') : evaluated'[i].responses = answered

\* C28: an iteration evaluates its predicates right after its own send and
\* each evaluation is given the outputs the device gave to that send; the
\* stdout returned on success is the outputs given to the last send.
C28_FreshResponses ==
    /\ [][C28_Step]_vars
    /\ [](pc = "done" => result.stdout = answered)

C28_Witness ==
    /\ pc = "done"
    /\ sends = 3
    /\ params.match = "all"
    /\ Len(Supplied) = 2
    /\ Len(evaluated) = 1
    /\ Len(commands) = 2
    /\ everTrue = {1, 2}

\* The positions of the save command among the calls made so far.
SavePositions == {i \in 1..Len(calls) : calls[i] = SaveCall}

C29_Step ==
    /\ pc' = "save" => pc = "diff"
    /\ Issued => pc = "save"
    /\ pc \in {"diff_against", "finish"} => Len(calls') >= Len(calls) /\ ~Issued

C29_Order ==
    /\ Cardinality(SavePositions) <= 1
    /\ \A j \in SavePositions : \A i \in EditCalls \cup BannerCalls : i < j

\* C29: the save decision is taken once, after the apply step: the save step
\* is entered only from the apply step, only the save step issues the save
\* command, at most one save command is among the calls of an invocation and
\* it comes after every config-edit, macro-edit and banner-edit call; the
\* diff-against step, which may force changed, issues no save.
C29_SaveDecidedOnceAfterApply == [][C29_Step]_vars /\ []C29_Order

C29_Witness ==
    /\ pc = "done"
    /\ ~check_mode
    /\ Cardinality(SavePositions) = 1
    /\ EditCalls # {}
    /\ BannerCalls # {}
    /\ "diff" \in DOMAIN result
    /\ params.save_when = "changed"

\* C30: against running outside check mode, the after text of an attached
\* diff is the device's running config as the apply step left it, whether or
\* not the request gives a running_config.
C30_AfterIsDeviceRunning ==
    (/\ pc \in {"finish", "done"}
     /\ ~check_mode
     /\ diff_mode
     /\ params.diff_against = "running"
     /\ "diff" \in DOMAIN result)
        => result.diff.after = Digest(devRunning)

(***************************************************************************)
(* The frame of a save step that does not persist.                         *)
(***************************************************************************)
C31_Step ==
    (pc = "save" /\ ~Persist) =>
        /\ ~Issued
        /\ result' = result
        /\ warnings' = warnings
        /\ module_warn' = module_warn
        /\ devStartup' = devStartup

\* C31: a save step that decides not to persist (save_when = never, modified
\* with equal digests of running and startup, changed with changed = false)
\* issues no save command and leaves the result (changed, commands,
\* updates, banners), the warnings and the startup config as they were.
C31_NoPersistIsFrame == [][C31_Step]_vars

C31_Witness ==
    /\ pc = "diff_against"
    /\ params.save_when = "modified"
    /\ Digest(devRunning) = Digest(devStartup)
    /\ devRunning # devStartup
    /\ "commands" \in DOMAIN result
    /\ result.changed
    /\ check_mode
    /\ Saves = 0
    /\ module_warn = <<>>

(***************************************************************************)
(* The pending list across the iterations of the retry loop.               *)
(***************************************************************************)
Range(seq) == {seq[i] : i \in 1..Len(seq)}

\* sub is what is left of seq when some of its entries are taken out.
IsSubList(sub, seq) == sub = SelectSeq(seq, LAMBDA c : c \in Range(sub))

C32_Step ==
    /\ pc # "parse" => IsSubList(conditionals', conditionals)
    /\ pc # "evaluate" => conditionals' = conditionals \/ pc = "parse"
    /\ pc = "evaluate" =>
          /\ Range(EvaluatedItems') \subseteq Range(conditionals)
          /\ IsSubList(EvaluatedItems', conditionals)

\* C32: once the predicates are built the pending list only shrinks: every
\* step leaves an order-preserving sub-list of it, only the evaluation of an
\* iteration changes it, and an iteration evaluates only predicates pending
\* when it starts, so a predicate once removed is neither pending nor
\* evaluated again.
C32_PendingOnlyShrinks == [][C32_Step]_vars

C32_Witness ==
    /\ pc = "sleep"
    /\ sends = 2
    /\ params.match = "all"
    /\ Len(Supplied) = 2
    /\ conditionals = <<Supplied[2]>>
    /\ EvaluatedItems = <<Supplied[2]>>
    /\ Holds(Supplied[1], responses)
    /\ ~Holds(Supplied[2], responses)

C34_BannerOnlyDispatch ==
    (/\ AfterApply
     /\ response # PyNone
     /\ response.config_diff = <<>>
     /\ response.banner_diff # <<>>
     /\ ~Truthy(params.before)
     /\ ~Truthy(params.after)) =>
        /\ \A i \in 1..Len(result.commands) : result.commands[i] # <<>>
        /\ \A i \in 1..Len(result.updates) : result.updates[i] # <<>>
        /\ ~check_mode => (EditCalls = {} /\ Cardinality(BannerCalls) = 1)

(***************************************************************************)
(* The diff step of a request without diff_against.                        *)
(***************************************************************************)
C35_Step ==
    (pc = "diff_against" /\ diff_mode /\ params.diff_against = "None") =>
        /\ result' = result
        /\ module_warn' = module_warn

\* C35: with diff requested and no diff_against, the diff step leaves the
\* result as it finds it (changed is not forced) and no diff block is ever
\* attached, whatever the running and startup configs and save_when are.
C35_NoDiffAgainstNoDiff ==
    /\ [][C35_Step]_vars
    /\ []((diff_mode /\ params.diff_against = "None") => "diff" \notin DOMAIN result)

C35_Witness ==
    /\ pc = "done"
    /\ diff_mode
    /\ params.diff_against = "None"
    /\ params.save_when = "never"
    /\ params.diff_ignore_lines # PyNone
    /\ devRunning # devStartup
    /\ Digest(devRunning) # Digest(devStartup)
    /\ ~result.changed
    /\ calls[Len(calls)] = [op |-> "run_commands", commands |-> <<ShowRun>>]

=============================================================================
